---- MODULE Spec2Model ----
(***************************************************************************)
(* Model of yolo_training/tools/label_gui.py: the YOLO label codec        *)
(* (yolo_save_label / yolo_load_label and the denormalisation and display *)
(* transform of LabelGUI.load_image / LabelGUI.save_label) and the event  *)
(* handlers of the LabelGUI session.                                       *)
(*                                                                         *)
(* Numbers.  Python computes with floats; the model computes with exact    *)
(* rationals held as integer numerators over a stated denominator:         *)
(*   - a label file holds five integers: the class id and the four values  *)
(*     of the "%.6f" fields counted in millionths (Micro);                  *)
(*   - a pixel coordinate handed to yolo_save_label is a numerator over a  *)
(*     denominator den that the caller states;                              *)
(*   - a denormalised coordinate is a numerator over DenormDen(W) (or H),  *)
(*     the denominator 2 * Micro of (cx - w/2) * W in lowest terms.        *)
(* A float quotient is modelled by the exact fraction; the image sizes and *)
(* coordinates enumerated are ones on which the two agree.                 *)
(* Optional values are sequences: None is <<>>, a value v is <<v>> (or the *)
(* tuple itself when the value is a tuple).                                *)
(* yolo_load_label's failures are a missing file and a wrong token count;  *)
(* status and info texts of the window are not modelled.                   *)
(***************************************************************************)
EXTENDS Integers, Sequences, FiniteSets, TLC

\* ------------------------------------------------------------------------
\* Program constants
\* ------------------------------------------------------------------------
MAX_CANVAS_W == 1280
MAX_CANVAS_H == 800
\* "{cx_n:.6f}": six decimals, i.e. millionths
Micro == 1000000

\* ------------------------------------------------------------------------
\* Bounds of the model
\* ------------------------------------------------------------------------
\* codec specification: image sizes 1..MaxW x 1..MaxH
MaxW == 3
MaxH == 2
\* display specification: pixel coordinates 0..MaxP
MaxP == 6
\* session specification
NumImages == 2
NumClasses == 2
\* mouse positions are the multiples 0..MaxMouse of (MouseStepX, MouseStepY)
MaxMouse == 1

None == <<>>

\* ------------------------------------------------------------------------
\* Arithmetic helpers
\* ------------------------------------------------------------------------
Max(a, b) == IF a >= b THEN a ELSE b
Min(a, b) == IF a <= b THEN a ELSE b
Abs(a) == IF a >= 0 THEN a ELSE -a

RECURSIVE GCD(_, _)
GCD(a, b) == IF b = 0 THEN a ELSE GCD(b, a % b)

\* a / b (b > 0) rounded to the nearest integer, ties to even: what "%.6f"
\* does to a value that is exactly representable.
RoundHalfEven(a, b) ==
  LET q == a \div b
      r == a % b
  IN  IF 2 * r < b THEN q
      ELSE IF 2 * r > b THEN q + 1
      ELSE IF q % 2 = 0 THEN q ELSE q + 1

\* Python's int(): truncation towards zero of a / b (b > 0)
IntTrunc(a, b) == IF a >= 0 THEN a \div b ELSE -((-a) \div b)

\* f"{num/den:.6f}" as a count of millionths: round(num * 10^6 / den)
Fmt6(num, den) ==
  LET g == GCD(Micro, den)
  IN  RoundHalfEven(num * (Micro \div g), den \div g)

\* yolo_save_label with the clamp to the image bounds left out
yolo_save_label_noclamp(class_id, bbox_xyxy, img_size, den) ==
  LET W == img_size[1]
      H == img_size[2]
      x1 == Min(bbox_xyxy[1], bbox_xyxy[3])
      x2 == Max(bbox_xyxy[1], bbox_xyxy[3])
      y1 == Min(bbox_xyxy[2], bbox_xyxy[4])
      y2 == Max(bbox_xyxy[2], bbox_xyxy[4])
  IN  << class_id,
         Fmt6(x1 + x2, 2 * W * den),
         Fmt6(y1 + y2, 2 * H * den),
         Fmt6(x2 - x1, W * den),
         Fmt6(y2 - y1, H * den) >>

\* ------------------------------------------------------------------------
\* yolo_save_label: the line written to the label file
\*   bbox_xyxy = <<x1, y1, x2, y2>>, numerators over den; img_size = <<W, H>>
\* ------------------------------------------------------------------------
yolo_save_label(class_id, bbox_xyxy, img_size, den) ==
  LET W == img_size[1]
      H == img_size[2]
      \* Clamp to image bounds
      cx1 == Max(0, Min(bbox_xyxy[1], (W - 1) * den))
      cx2 == Max(1 * den, Min(bbox_xyxy[3], W * den))
      cy1 == Max(0, Min(bbox_xyxy[2], (H - 1) * den))
      cy2 == Max(1 * den, Min(bbox_xyxy[4], H * den))
      \* Ensure proper ordering
      x1 == IF cx2 < cx1 THEN cx2 ELSE cx1
      x2 == IF cx2 < cx1 THEN cx1 ELSE cx2
      y1 == IF cy2 < cy1 THEN cy2 ELSE cy1
      y2 == IF cy2 < cy1 THEN cy1 ELSE cy2
      w == x2 - x1
      h == y2 - y1
      \* cx = x1 + w / 2.0, kept as the numerator 2*x1 + w over 2*den
      cx_2 == 2 * x1 + w
      cy_2 == 2 * y1 + h
  IN  << class_id,
         Fmt6(cx_2, 2 * W * den),
         Fmt6(cy_2, 2 * H * den),
         Fmt6(w, W * den),
         Fmt6(h, H * den) >>

\* ------------------------------------------------------------------------
\* yolo_load_label: a label file is [exists |-> BOOLEAN, parts |-> the
\* tokens of its first line]; the result is None or <<cid, <<cx,cy,w,h>>>>
\* ------------------------------------------------------------------------
NoFile == [exists |-> FALSE, parts |-> <<>>]
FileOf(line) == [exists |-> TRUE, parts |-> line]

yolo_load_label(file) ==
  IF ~file.exists THEN None
  ELSE IF Len(file.parts) # 5 THEN None
  ELSE << file.parts[1],
          << file.parts[2], file.parts[3], file.parts[4], file.parts[5] >> >>

\* load_image, "convert normalized to original xyxy":
\*   x1 = (cx - w / 2.0) * W = (2*cx - w) * W / (2 * Micro)
\* The fraction W / (2 * Micro) is reduced, so an x coordinate is a numerator
\* over DenormDen(W) and a y coordinate a numerator over DenormDen(H).
DenormDen(L) == (2 * Micro) \div GCD(2 * Micro, L)
DenormMul(L) == L \div GCD(2 * Micro, L)

\* Denormalize taking w and h for half sizes: x1 = (cx - w) * W
Denormalize_fullsize(box, img_size) ==
  << (2 * box[1] - 2 * box[3]) * DenormMul(img_size[1]),
     (2 * box[2] - 2 * box[4]) * DenormMul(img_size[2]),
     (2 * box[1] + 2 * box[3]) * DenormMul(img_size[1]),
     (2 * box[2] + 2 * box[4]) * DenormMul(img_size[2]) >>

Denormalize(box, img_size) ==
  LET W == img_size[1]
      H == img_size[2]
      cx == box[1]
      cy == box[2]
      w == box[3]
      h == box[4]
  IN  << (2 * cx - w) * DenormMul(W), (2 * cy - h) * DenormMul(H),
         (2 * cx + w) * DenormMul(W), (2 * cy + h) * DenormMul(H) >>

\* ------------------------------------------------------------------------
\* Display transform (load_image): scale = <<sn, sd>> is the fraction sn/sd
\* ------------------------------------------------------------------------
\* scale = min(MAX_CANVAS_W / W, MAX_CANVAS_H / H, 1.0), in lowest terms
FitScale(img_size) ==
  LET W == img_size[1]
      H == img_size[2]
      byW == MAX_CANVAS_W * H <= MAX_CANVAS_H * W
      n == IF byW THEN MAX_CANVAS_W ELSE MAX_CANVAS_H
      d == IF byW THEN W ELSE H
  IN  IF n >= d THEN << 1, 1 >> ELSE << n \div GCD(n, d), d \div GCD(n, d) >>

\* disp_w = int(W * scale), disp_h = int(H * scale)
DispSize(img_size) ==
  LET s == FitScale(img_size)
  IN  << IntTrunc(img_size[1] * s[1], s[2]), IntTrunc(img_size[2] * s[1], s[2]) >>

\* offset_x = (MAX_CANVAS_W - disp_w) // 2, offset_y likewise
Offsets(img_size) ==
  << (MAX_CANVAS_W - DispSize(img_size)[1]) \div 2,
     (MAX_CANVAS_H - DispSize(img_size)[2]) \div 2 >>

\* c = offset + int(p * scale), p a numerator over pden
toDisplay(p, pden, offset, s) ==
  LET g == GCD(s[1], pden)
  IN  offset + IntTrunc(p * (s[1] \div g), (pden \div g) * s[2])

\* toOriginal with the centring offset forgotten
toOriginal_nooffset(c, offset, s) == c * s[2]

\* p = (c - offset) / scale: a numerator over s[1]
toOriginal(c, offset, s) == (c - offset) * s[2]

\* ------------------------------------------------------------------------
\* State
\* ------------------------------------------------------------------------
VARIABLES
  \* --- LabelGUI session -------------------------------------------------
  idx,                 \* self.idx
  orig_size,           \* self.orig_img.size, <<W, H>>
  scale,               \* self.scale_x = self.scale_y, a fraction <<sn, sd>>
  offset_x,            \* self.offset_x
  offset_y,            \* self.offset_y
  current_bbox_canvas, \* None, or the coordinates <<x1,y1,x2,y2>> of the
                       \* canvas rectangle that self.current_bbox_canvas names
  dragging,            \* self.dragging
  start_xy,            \* self.start_xy
  end_xy,              \* self.end_xy
  selected_class_id,   \* self.selected_class_id: None or <<class id>>
  class_vars,          \* self.class_vars: the IntVar of every checkbox
  labels,              \* the label file of every image (LABELS_DIR)
  last,                \* history: the last event handled, the index it ran
                       \* at and the message box it raised ("" for none)
  \* --- codec calls ------------------------------------------------------
  cd_size,             \* img_size of the call
  cd_bbox,             \* bbox_xyxy of the call, numerators over CoordDen
  cd_line,             \* None, or the line yolo_save_label wrote
  cd_xyxy,             \* None, or that line loaded and denormalised
  \* --- display transform calls ------------------------------------------
  dt_size,             \* size of the image loaded
  dt_p,                \* <<px, py>>, a pixel of the original image
  dt_disp,             \* None, or its canvas coordinates
  dt_orig              \* None, or those mapped back (numerators over sn)

guiVars == << idx, orig_size, scale, offset_x, offset_y, current_bbox_canvas,
              dragging, start_xy, end_xy, selected_class_id, class_vars,
              labels, last >>
codecVars == << cd_size, cd_bbox, cd_line, cd_xyxy >>
dispVars == << dt_size, dt_p, dt_disp, dt_orig >>
vars == << guiVars, codecVars, dispVars >>

\* ------------------------------------------------------------------------
\* The environment of a session
\* ------------------------------------------------------------------------
ImageIds == 0 .. (NumImages - 1)
ClassIds == 0 .. (NumClasses - 1)

\* the sizes of the images of IMAGES_DIR: one that fits the canvas and is
\* centred in it (scale 1, offsets 384 and 144), one that is scaled down
\* (scale 1/4, offsets 0 and 144).  With these sizes every quotient the
\* session computes is either exactly representable as a float or no
\* decimal tie, so the exact arithmetic of the model is Python's.
SmallImage == << 512, 512 >>
WideImage == << 4 * MAX_CANVAS_W, 4 * 512 >>
images == [i \in ImageIds |-> IF i % 2 = 0 THEN SmallImage ELSE WideImage]

\* label files found in LABELS_DIR at startup: none, a line with the wrong
\* token count, a well-formed label, a label whose class id is no index of
\* the class list
InitLabelFiles ==
  { NoFile,
    FileOf(<< 1, Micro \div 2, Micro \div 2 >>),
    FileOf(<< 0, Micro \div 2, Micro \div 2, Micro \div 4, Micro \div 4 >>),
    FileOf(<< NumClasses, Micro \div 2, Micro \div 2, Micro \div 4, Micro \div 4 >>) }

\* mouse events carry one of these canvas positions
MouseStepX == MAX_CANVAS_W \div 2
MouseStepY == MAX_CANVAS_H \div 2
MousePts == { << k * MouseStepX, k * MouseStepY >> : k \in 0 .. MaxMouse }

Event(name, warn) == [ev |-> name, idx |-> idx, warn |-> warn]

\* ------------------------------------------------------------------------
\* LabelGUI helpers
\* ------------------------------------------------------------------------
\* draw_or_update_bbox: the coordinates the canvas rectangle gets
draw_or_update_bbox(p1, p2) ==
  << Max(0, Min(p1[1], MAX_CANVAS_W)), Max(0, Min(p1[2], MAX_CANVAS_H)),
     Max(0, Min(p2[1], MAX_CANVAS_W)), Max(0, Min(p2[2], MAX_CANVAS_H)) >>

\* set_selected_class: the new class_vars
set_selected_class(class_id) ==
  [i \in ClassIds |-> IF class_id # None /\ i = class_id[1] THEN 1 ELSE 0]

\* the canvas rectangle load_image draws for a loaded label
LoadedBBox(box, img_size) ==
  LET xyxy == Denormalize(box, img_size)
      s == FitScale(img_size)
      off == Offsets(img_size)
      dx == DenormDen(img_size[1])
      dy == DenormDen(img_size[2])
  IN  draw_or_update_bbox(
        << toDisplay(xyxy[1], dx, off[1], s), toDisplay(xyxy[2], dy, off[2], s) >>,
        << toDisplay(xyxy[3], dx, off[1], s), toDisplay(xyxy[4], dy, off[2], s) >>)

\* load_image(i): everything it assigns; the selected class and the
\* checkboxes are assigned only when a label was loaded
load_image(i) ==
  LET j == Max(0, Min(i, NumImages - 1))
      loaded == yolo_load_label(labels'[j])
  IN  /\ idx' = j
      /\ orig_size' = images[j]
      /\ scale' = FitScale(images[j])
      /\ offset_x' = Offsets(images[j])[1]
      /\ offset_y' = Offsets(images[j])[2]
      /\ IF loaded # None
         THEN /\ current_bbox_canvas' = LoadedBBox(loaded[2], images[j])
              /\ class_vars' = set_selected_class(<< loaded[1] >>)
              /\ selected_class_id' = << loaded[1] >>
         ELSE /\ current_bbox_canvas' = None
              /\ UNCHANGED << class_vars, selected_class_id >>

\* save_label: canvas rectangle -> original image coordinates (numerators
\* over scale[1]), ordered and clamped to the image
SaveBBox ==
  LET c == current_bbox_canvas
      x1c == Min(c[1], c[3])
      x2c == Max(c[1], c[3])
      y1c == Min(c[2], c[4])
      y2c == Max(c[2], c[4])
      den == scale[1]
      W == orig_size[1]
      H == orig_size[2]
  IN  << Max(0, Min(toOriginal(x1c, offset_x, scale), (W - 1) * den)),
         Max(0, Min(toOriginal(y1c, offset_y, scale), (H - 1) * den)),
         Max(1 * den, Min(toOriginal(x2c, offset_x, scale), W * den)),
         Max(1 * den, Min(toOriginal(y2c, offset_y, scale), H * den)) >>

\* ------------------------------------------------------------------------
\* LabelGUI event handlers
\* ------------------------------------------------------------------------
\* a click on checkbox i: the widget flips its IntVar, then on_class_toggle(i)
on_class_toggle(i) ==
  /\ IF class_vars[i] = 0
     THEN /\ class_vars' = [j \in ClassIds |-> IF j = i THEN 1 ELSE 0]
          /\ selected_class_id' = << i >>
     ELSE /\ class_vars' = [class_vars EXCEPT ![i] = 0]
          /\ selected_class_id' = None
  /\ last' = Event("toggle", "")
  /\ UNCHANGED << idx, orig_size, scale, offset_x, offset_y, current_bbox_canvas,
                  dragging, start_xy, end_xy, labels >>

on_press(p) ==
  /\ dragging' = TRUE
  /\ start_xy' = p
  /\ end_xy' = p
  /\ current_bbox_canvas' = draw_or_update_bbox(p, p)
  /\ last' = Event("press", "")
  /\ UNCHANGED << idx, orig_size, scale, offset_x, offset_y, selected_class_id,
                  class_vars, labels >>

on_drag(p) ==
  /\ last' = Event("drag", "")
  /\ IF ~dragging
     THEN UNCHANGED << end_xy, current_bbox_canvas >>
     ELSE /\ end_xy' = p
          /\ current_bbox_canvas' = draw_or_update_bbox(start_xy, p)
  /\ UNCHANGED << idx, orig_size, scale, offset_x, offset_y, dragging, start_xy,
                  selected_class_id, class_vars, labels >>

on_release(p) ==
  /\ last' = Event("release", "")
  /\ IF ~dragging
     THEN UNCHANGED << dragging, end_xy, current_bbox_canvas >>
     ELSE /\ dragging' = FALSE
          /\ end_xy' = p
          /\ current_bbox_canvas' = draw_or_update_bbox(start_xy, p)
  /\ UNCHANGED << idx, orig_size, scale, offset_x, offset_y, start_xy,
                  selected_class_id, class_vars, labels >>

clear_bbox ==
  /\ current_bbox_canvas' = None
  /\ last' = Event("clear", "")
  /\ UNCHANGED << idx, orig_size, scale, offset_x, offset_y, dragging, start_xy,
                  end_xy, selected_class_id, class_vars, labels >>

\* prev_image wrapping round from the first image to the last
prev_image_wraps ==
  /\ last' = Event("prev", "")
  /\ labels' = labels
  /\ load_image(IF idx > 0 THEN idx - 1 ELSE NumImages - 1)
  /\ UNCHANGED << dragging, start_xy, end_xy >>

prev_image ==
  /\ last' = Event("prev", "")
  /\ labels' = labels
  /\ IF idx > 0
     THEN load_image(idx - 1)
     ELSE UNCHANGED << idx, orig_size, scale, offset_x, offset_y,
                       current_bbox_canvas, selected_class_id, class_vars >>
  /\ UNCHANGED << dragging, start_xy, end_xy >>

next_image ==
  /\ last' = Event("next", "")
  /\ labels' = labels
  /\ IF idx < NumImages - 1
     THEN load_image(idx + 1)
     ELSE UNCHANGED << idx, orig_size, scale, offset_x, offset_y,
                       current_bbox_canvas, selected_class_id, class_vars >>
  /\ UNCHANGED << dragging, start_xy, end_xy >>

\* save_label whose warnings do not return: the handler goes on to the
\* auto-advance
save_label_noreturn ==
  /\ IF selected_class_id = None \/ current_bbox_canvas = None
     THEN /\ last' = Event("save", IF selected_class_id = None
                                   THEN "Missing class" ELSE "Missing box")
          /\ labels' = labels
     ELSE /\ last' = Event("save", "")
          /\ labels' = [labels EXCEPT ![idx] =
                          FileOf(yolo_save_label(selected_class_id[1], SaveBBox,
                                                 orig_size, scale[1]))]
  /\ IF idx < NumImages - 1
     THEN load_image(idx + 1)
     ELSE UNCHANGED << idx, orig_size, scale, offset_x, offset_y,
                       current_bbox_canvas, selected_class_id, class_vars >>
  /\ UNCHANGED << dragging, start_xy, end_xy >>

\* save_label without the auto-advance
save_label_noadvance ==
  /\ IF selected_class_id = None
     THEN /\ last' = Event("save", "Missing class")
          /\ labels' = labels
     ELSE IF current_bbox_canvas = None
     THEN /\ last' = Event("save", "Missing box")
          /\ labels' = labels
     ELSE /\ last' = Event("save", "")
          /\ labels' = [labels EXCEPT ![idx] =
                          FileOf(yolo_save_label(selected_class_id[1], SaveBBox,
                                                 orig_size, scale[1]))]
  /\ UNCHANGED << idx, orig_size, scale, offset_x, offset_y,
                  current_bbox_canvas, selected_class_id, class_vars >>
  /\ UNCHANGED << dragging, start_xy, end_xy >>

save_label ==
  /\ IF selected_class_id = None
     THEN /\ last' = Event("save", "Missing class")
          /\ UNCHANGED << idx, orig_size, scale, offset_x, offset_y,
                          current_bbox_canvas, selected_class_id, class_vars, labels >>
     ELSE IF current_bbox_canvas = None
     THEN /\ last' = Event("save", "Missing box")
          /\ UNCHANGED << idx, orig_size, scale, offset_x, offset_y,
                          current_bbox_canvas, selected_class_id, class_vars, labels >>
     ELSE /\ last' = Event("save", "")
          /\ labels' = [labels EXCEPT ![idx] =
                          FileOf(yolo_save_label(selected_class_id[1], SaveBBox,
                                                 orig_size, scale[1]))]
          \* Auto-advance
          /\ IF idx < NumImages - 1
             THEN load_image(idx + 1)
             ELSE UNCHANGED << idx, orig_size, scale, offset_x, offset_y,
                               current_bbox_canvas, selected_class_id, class_vars >>
  /\ UNCHANGED << dragging, start_xy, end_xy >>

\* LabelGUI.__init__: the state once the constructor has returned
GuiInit ==
  /\ labels \in [ImageIds -> InitLabelFiles]
  /\ idx = 0
  /\ orig_size = images[0]
  /\ scale = FitScale(images[0])
  /\ offset_x = Offsets(images[0])[1]
  /\ offset_y = Offsets(images[0])[2]
  /\ dragging = FALSE
  /\ start_xy = << 0, 0 >>
  /\ end_xy = << 0, 0 >>
  /\ LET loaded == yolo_load_label(labels[0])
     IN  IF loaded # None
         THEN /\ current_bbox_canvas = LoadedBBox(loaded[2], images[0])
              /\ class_vars = set_selected_class(<< loaded[1] >>)
              /\ selected_class_id = << loaded[1] >>
         ELSE /\ current_bbox_canvas = None
              /\ class_vars = [i \in ClassIds |-> 0]
              /\ selected_class_id = None
  /\ last = [ev |-> "init", idx |-> 0, warn |-> ""]

\* the session while a codec or display specification runs: not started
GuiIdle ==
  /\ labels = [i \in ImageIds |-> NoFile]
  /\ idx = 0
  /\ orig_size = images[0]
  /\ scale = FitScale(images[0])
  /\ offset_x = Offsets(images[0])[1]
  /\ offset_y = Offsets(images[0])[2]
  /\ dragging = FALSE
  /\ start_xy = << 0, 0 >>
  /\ end_xy = << 0, 0 >>
  /\ current_bbox_canvas = None
  /\ class_vars = [i \in ClassIds |-> 0]
  /\ selected_class_id = None
  /\ last = [ev |-> "init", idx |-> 0, warn |-> ""]

CodecIdle ==
  /\ cd_size = << 1, 1 >>
  /\ cd_bbox = << 0, 0, 0, 0 >>
  /\ cd_line = None
  /\ cd_xyxy = None

DispIdle ==
  /\ dt_size = << 1, 1 >>
  /\ dt_p = << 0, 0 >>
  /\ dt_disp = None
  /\ dt_orig = None

Init == GuiInit /\ CodecIdle /\ DispIdle

Next ==
  \/ (\E i \in ClassIds : on_class_toggle(i)) /\ UNCHANGED << codecVars, dispVars >>
  \/ (\E p \in MousePts : on_press(p)) /\ UNCHANGED << codecVars, dispVars >>
  \/ (\E p \in MousePts : on_drag(p)) /\ UNCHANGED << codecVars, dispVars >>
  \/ (\E p \in MousePts : on_release(p)) /\ UNCHANGED << codecVars, dispVars >>
  \/ clear_bbox /\ UNCHANGED << codecVars, dispVars >>
  \/ prev_image /\ UNCHANGED << codecVars, dispVars >>
  \/ next_image /\ UNCHANGED << codecVars, dispVars >>
  \/ save_label /\ UNCHANGED << codecVars, dispVars >>

Spec == Init /\ [][Next]_vars

\* ------------------------------------------------------------------------
\* Codec calls: yolo_save_label on any rectangle, then yolo_load_label and
\* the denormalisation of load_image on the line written
\* ------------------------------------------------------------------------
\* a pixel coordinate of a codec call is a numerator over CoordDen
CoordDen == 10 * Micro

\* coordinates tried for an image side of L pixels: the whole pixels from one
\* pixel outside to one pixel outside, the half pixel next to each edge, and
\* the value one unit inside the far edge
CodecCoords(L) ==
  { k * CoordDen : k \in -1 .. (L + 1) }
    \cup { CoordDen \div 2, L * CoordDen - CoordDen \div 2, L * CoordDen - 1 }

\* a denormalised numerator (over DenormDen(L)) in units of 1 / CoordDen
InCoordUnits(n, L) == n * GCD(2 * Micro, L) * (CoordDen \div (2 * Micro))

CodecInit ==
  /\ cd_size \in (1 .. MaxW) \X (1 .. MaxH)
  /\ cd_bbox \in CodecCoords(cd_size[1]) \X CodecCoords(cd_size[2])
                   \X CodecCoords(cd_size[1]) \X CodecCoords(cd_size[2])
  /\ cd_line = None
  /\ cd_xyxy = None

CodecSave ==
  /\ cd_line = None
  /\ cd_line' = yolo_save_label(0, cd_bbox, cd_size, CoordDen)
  /\ UNCHANGED << cd_size, cd_bbox, cd_xyxy >>

CodecLoad ==
  /\ cd_line # None
  /\ cd_xyxy = None
  /\ cd_xyxy' = Denormalize(yolo_load_label(FileOf(cd_line))[2], cd_size)
  /\ UNCHANGED << cd_size, cd_bbox, cd_line >>

InitCodec == GuiIdle /\ CodecInit /\ DispIdle

NextCodec ==
  \/ CodecSave /\ UNCHANGED << guiVars, dispVars >>
  \/ CodecLoad /\ UNCHANGED << guiVars, dispVars >>

SpecCodec == InitCodec /\ [][NextCodec]_vars

\* ------------------------------------------------------------------------
\* Display transform calls: a pixel of the original image mapped to the
\* canvas as load_image does and back as save_label does
\* ------------------------------------------------------------------------
\* image sizes loaded: scale 1, 1/2, 1/4, and 1/4 with a horizontal offset
HalfImage == << 2 * MAX_CANVAS_W, 2 * MAX_CANVAS_H >>
QuarterImage == << 4 * MAX_CANVAS_W, 4 * MAX_CANVAS_H >>
TallImage == << MAX_CANVAS_W, 4 * MAX_CANVAS_H >>
DispSizes == { SmallImage, HalfImage, QuarterImage, TallImage }

DispInit ==
  /\ dt_size \in DispSizes
  /\ dt_p \in (0 .. MaxP) \X (0 .. MaxP)
  /\ dt_disp = None
  /\ dt_orig = None

DispToDisplay ==
  /\ dt_disp = None
  /\ dt_disp' = << toDisplay(dt_p[1], 1, Offsets(dt_size)[1], FitScale(dt_size)),
                   toDisplay(dt_p[2], 1, Offsets(dt_size)[2], FitScale(dt_size)) >>
  /\ UNCHANGED << dt_size, dt_p, dt_orig >>

DispToOriginal ==
  /\ dt_disp # None
  /\ dt_orig = None
  /\ dt_orig' = << toOriginal(dt_disp[1], Offsets(dt_size)[1], FitScale(dt_size)),
                   toOriginal(dt_disp[2], Offsets(dt_size)[2], FitScale(dt_size)) >>
  /\ UNCHANGED << dt_size, dt_p, dt_disp >>

InitDisp == GuiIdle /\ CodecIdle /\ DispInit

NextDisp ==
  \/ DispToDisplay /\ UNCHANGED << guiVars, codecVars >>
  \/ DispToOriginal /\ UNCHANGED << guiVars, codecVars >>

SpecDisp == InitDisp /\ [][NextDisp]_vars

\* ------------------------------------------------------------------------
\* Properties of the session (specification Spec)
\* ------------------------------------------------------------------------
SessionState == << idx, orig_size, scale, offset_x, offset_y, current_bbox_canvas,
                   dragging, start_xy, end_xy, selected_class_id, class_vars,
                   labels >>

\* C1: a save event handled while no class is selected or no rectangle
\* exists raises a warning and changes nothing else: no label file, not the
\* current index, not the rectangle, not the selected class.
C1_SaveRefusedChangesNothing ==
  [][ (last'.ev = "save" /\ (selected_class_id = None \/ current_bbox_canvas = None))
        => (last'.warn # "" /\ UNCHANGED SessionState) ]_vars

C1_Witness ==
  /\ last.ev = "save"
  /\ last.warn = "Missing box"
  /\ selected_class_id # None
  /\ current_bbox_canvas = None

\* C2: a save with a class and a rectangle on image i writes the label file
\* of image i (five fields, the selected class first) and no other file, and
\* makes i+1 current unless i is the last index, where i stays current; no
\* save moves the index backwards or by more than one.
C2_SaveWritesAndAdvances ==
  [][ /\ (last'.ev = "save" /\ selected_class_id # None /\ current_bbox_canvas # None)
           => /\ last'.warn = ""
              /\ labels'[idx].exists
              /\ Len(labels'[idx].parts) = 5
              /\ labels'[idx].parts[1] = selected_class_id[1]
              /\ \A k \in ImageIds \ {idx} : labels'[k] = labels[k]
              /\ idx' = IF idx < NumImages - 1 THEN idx + 1 ELSE idx
      /\ last'.ev = "save" => (idx' = idx \/ idx' = idx + 1) ]_vars

C2_Witness ==
  /\ last.ev = "save"
  /\ last.warn = ""
  /\ idx = last.idx + 1
  /\ labels[last.idx].exists

\* C3: the current index stays within 0 .. n-1; prev at index 0 and next at
\* index n-1 leave it unchanged, otherwise prev moves it by exactly -1 and
\* next by exactly +1.
C3_NavigationBounded ==
  [][ /\ idx \in ImageIds
      /\ idx' \in ImageIds
      /\ last'.ev = "prev" => idx' = IF idx = 0 THEN idx ELSE idx - 1
      /\ last'.ev = "next" => idx' = IF idx = NumImages - 1 THEN idx ELSE idx + 1 ]_vars

C3_Witness ==
  /\ last.ev = "next"
  /\ last.idx = NumImages - 1
  /\ idx = NumImages - 1

\* C9: right after an event that changed the current image to image j, the
\* rectangle and the selected class are those of j's label file, and both are
\* none when j has no label or an unparsable one.
C9_ReplacedOnNavigation ==
  (last.ev \in {"prev", "next", "save"} /\ idx # last.idx)
    => LET loaded == yolo_load_label(labels[idx])
       IN  IF loaded = None
           THEN current_bbox_canvas = None /\ selected_class_id = None
           ELSE /\ current_bbox_canvas = LoadedBBox(loaded[2], images[idx])
                /\ selected_class_id = << loaded[1] >>

\* C10: at most one class checkbox is on; selected_class_id is None exactly
\* when none is on and is otherwise the index of the one that is on; the class
\* id a save writes is an index of the class list.
C10_ClassSelectionConsistent ==
  LET on == { i \in ClassIds : class_vars[i] = 1 }
  IN  /\ Cardinality(on) <= 1
      /\ (selected_class_id = None) <=> (on = {})
      /\ selected_class_id # None => on = { selected_class_id[1] }
      /\ (last.ev = "save" /\ last.warn = "")
           => labels[last.idx].parts[1] \in ClassIds

\* ------------------------------------------------------------------------
\* Properties of the codec (specification SpecCodec)
\* ------------------------------------------------------------------------
LineInUnitRange ==
  \A k \in 2 .. 5 : 0 <= cd_line[k] /\ cd_line[k] <= Micro

\* C4 as claimed: every value written lies in [0,1] and the rectangle
\* denormalised from the written values lies within [0,W] x [0,H].
C4_WrittenRecordInRange ==
  cd_xyxy # None
    => /\ LineInUnitRange
       /\ 0 <= cd_xyxy[1] /\ cd_xyxy[3] <= cd_size[1] * DenormDen(cd_size[1])
       /\ 0 <= cd_xyxy[2] /\ cd_xyxy[4] <= cd_size[2] * DenormDen(cd_size[2])

\* C4 as amended: every value written lies in [0,1] and the rectangle
\* denormalised from the written values lies within [0,W] x [0,H] up to the
\* rounding of the six decimals: it leaves the image by less than one
\* millionth of the image width (height).
\*   (W / Micro pixel is 2 * DenormMul(W) over DenormDen(W))
C4_WrittenRecordInRangeUpToRounding ==
  cd_xyxy # None
    => /\ LineInUnitRange
       /\ cd_xyxy[1] <= cd_xyxy[3] /\ cd_xyxy[2] <= cd_xyxy[4]
       /\ - 2 * DenormMul(cd_size[1]) < cd_xyxy[1]
       /\ cd_xyxy[3] < cd_size[1] * DenormDen(cd_size[1]) + 2 * DenormMul(cd_size[1])
       /\ - 2 * DenormMul(cd_size[2]) < cd_xyxy[2]
       /\ cd_xyxy[4] < cd_size[2] * DenormDen(cd_size[2]) + 2 * DenormMul(cd_size[2])

\* a rectangle given in reverse order whose corners lie past two image edges
C4_Witness ==
  /\ cd_xyxy # None
  /\ cd_bbox[1] > cd_size[1] * CoordDen
  /\ cd_bbox[3] < 0
  /\ cd_bbox[4] > cd_size[2] * CoordDen

InsideImage ==
  /\ 0 <= cd_bbox[1] /\ cd_bbox[1] < cd_bbox[3] /\ cd_bbox[3] <= cd_size[1] * CoordDen
  /\ 0 <= cd_bbox[2] /\ cd_bbox[2] < cd_bbox[4] /\ cd_bbox[4] <= cd_size[2] * CoordDen

\* the denormalised rectangle in the units of cd_bbox
BackInCoordUnits ==
  << InCoordUnits(cd_xyxy[1], cd_size[1]), InCoordUnits(cd_xyxy[2], cd_size[2]),
     InCoordUnits(cd_xyxy[3], cd_size[1]), InCoordUnits(cd_xyxy[4], cd_size[2]) >>

\* C5 as claimed: a rectangle inside the image with positive width and
\* height comes back from normalise / denormalise with every coordinate
\* within 1 pixel.
C5_RoundTripWithinOnePixel ==
  (cd_xyxy # None /\ InsideImage)
    => \A k \in 1 .. 4 : Abs(BackInCoordUnits[k] - cd_bbox[k]) <= CoordDen

\* C5 as amended: ... every coordinate comes back within 1 pixel plus the
\* rounding of the six decimals, which is less than one millionth of the
\* image width (height).
C5_RoundTripWithinOnePixelAndRounding ==
  (cd_xyxy # None /\ InsideImage)
    => /\ \A k \in {1, 3} :
            Abs(BackInCoordUnits[k] - cd_bbox[k])
              < CoordDen + cd_size[1] * (CoordDen \div Micro)
       /\ \A k \in {2, 4} :
            Abs(BackInCoordUnits[k] - cd_bbox[k])
              < CoordDen + cd_size[2] * (CoordDen \div Micro)

\* a rectangle inside the image whose left side lies in the last pixel
\* column, which the clamp moves
C5_Witness ==
  /\ cd_xyxy # None
  /\ InsideImage
  /\ cd_bbox[1] > (cd_size[1] - 1) * CoordDen
  /\ BackInCoordUnits[1] # cd_bbox[1]

\* C6: yolo_save_label writes the same line for (x1,y1,x2,y2) and for
\* (x2,y1,x1,y2).
C6_OrderInvariance ==
  cd_line # None
    => cd_line = yolo_save_label(0, << cd_bbox[3], cd_bbox[2], cd_bbox[1], cd_bbox[4] >>,
                                 cd_size, CoordDen)

\* C7: a rectangle of zero width is written with a width of at least one
\* pixel (w * W >= 1) and one of zero height with a height of at least one
\* pixel (h * H >= 1), never zero; the written value is allowed the rounding
\* of its six decimals.
C7_NonDegenerate ==
  cd_line # None
    => /\ cd_bbox[1] = cd_bbox[3] => (cd_line[4] + 1) * cd_size[1] >= Micro
       /\ cd_bbox[2] = cd_bbox[4] => (cd_line[5] + 1) * cd_size[2] >= Micro

\* ------------------------------------------------------------------------
\* Properties of the display transform (specification SpecDisp)
\* ------------------------------------------------------------------------
\* dt_orig[k] is a numerator over the numerator sn of the scale sn/sd, so
\* (p' - p) * sn = dt_orig[k] - dt_p[k] * sn

\* C8 as claimed: a pixel coordinate mapped to the canvas and back is
\* recovered to within one pixel of the original image.
C8_RoundTripWithinOnePixel ==
  dt_orig # None
    => \A k \in 1 .. 2 :
         Abs(dt_orig[k] - dt_p[k] * FitScale(dt_size)[1]) <= FitScale(dt_size)[1]

\* C8 as amended: ... is recovered to within one pixel of the canvas, that is
\* to within 1/scale pixels of the original image (which is within one
\* original pixel only when scale = 1).
C8_RoundTripWithinOneDisplayPixel ==
  dt_orig # None
    => \A k \in 1 .. 2 :
         Abs(dt_orig[k] - dt_p[k] * FitScale(dt_size)[1]) <= FitScale(dt_size)[2]

\* a scaled-down image and a pixel that does not come back exactly
C8_Witness ==
  /\ dt_orig # None
  /\ FitScale(dt_size)[1] < FitScale(dt_size)[2]
  /\ dt_orig[1] # dt_p[1] * FitScale(dt_size)[1]

====
